---- MODULE Spec2Model ----
(***************************************************************************)
(* Model of isatools/model/v1.py: the graph builder _build_assay_graph and *)
(* the batch generators batch_create_materials, batch_create_assays and    *)
(* batch_set_attr, run over a heap of Python objects (object identity =    *)
(* index in the heap).                                                     *)
(***************************************************************************)
EXTENDS Integers, Sequences, FiniteSets, TLC

\* ------------------------------------------------------------------ bounds
MaxN == 3          \* largest batch size n passed by the caller
MaxChain == 3      \* longest prototype chain whose shapes are enumerated freely
MaxK == 2          \* most processes in a well-formed alternating chain
MaxMut == 2        \* most client mutations applied to a returned batch

\* ------------------------------------------------------------ object heap
None == 0

\* A Python object: the attributes the batch generators read, write or copy.
NewObj(kind, name) ==
    [kind |-> kind, name |-> name, inputs |-> None, outputs |-> None,
     derives_from |-> None, characteristics |-> None,
     prev_process |-> None, next_process |-> None,
     items |-> <<>>, value |-> 0, attrs |-> <<>>]

\* list() / a list literal: a fresh list object holding the given references
NewList(h, items) ==
    LET h1 == Append(h, [NewObj("list", "") EXCEPT !.items = items])
    IN  [heap |-> h1, ref |-> Len(h1)]

\* Characteristic(value=v)
NewCharacteristic(h, v) ==
    LET h1 == Append(h, [NewObj("Characteristic", "") EXCEPT !.value = v])
    IN  [heap |-> h1, ref |-> Len(h1)]

\* DataFile(filename=name)
NewDataFile(h, name) ==
    LET h1 == Append(h, NewObj("DataFile", name))
    IN  [heap |-> h1, ref |-> Len(h1)]

\* Source / Sample / Material / Extract / LabeledExtract constructors:
\* characteristics=None allocates a fresh empty list, derives_from is stored.
NewMaterial(h, kind, name, characteristics, derives_from) ==
    LET c  == IF characteristics = None THEN NewList(h, <<>>)
              ELSE [heap |-> h, ref |-> characteristics]
        h1 == Append(c.heap, [NewObj(kind, name) EXCEPT
                                 !.characteristics = c.ref,
                                 !.derives_from = derives_from])
    IN  [heap |-> h1, ref |-> Len(h1)]

\* Process(name=name): fresh empty inputs and outputs, no prev/next process
NewProcess(h, name) ==
    LET i  == NewList(h, <<>>)
        o  == NewList(i.heap, <<>>)
        h1 == Append(o.heap, [NewObj("Process", name) EXCEPT
                                 !.inputs = i.ref, !.outputs = o.ref])
    IN  [heap |-> h1, ref |-> Len(h1)]

\* The classes a class derives from (itself included)
Mro(kind) ==
    CASE kind = "LabeledExtract" -> {"LabeledExtract", "Extract", "Material"}
      [] kind = "Extract"        -> {"Extract", "Material"}
      [] OTHER                   -> {kind}

\* Faulty variant of IsInstance: any object passes (a test for "is not None")
IsInstanceNotNone(h, ref, classes) == ref # None

\* isinstance(ref, classes); None is an instance of no modelled class
IsInstance(h, ref, classes) ==
    /\ ref # None
    /\ Mro(h[ref].kind) \cap classes # {}

\* ------------------------------------------------------------- copy.deepcopy
Refs(o) ==
    ({o.inputs, o.outputs, o.derives_from, o.characteristics,
      o.prev_process, o.next_process}
       \cup {o.items[k] : k \in DOMAIN o.items}) \ {None}

RECURSIVE Reach(_, _)
Reach(h, S) ==
    LET T == S \cup UNION {Refs(h[r]) : r \in S}
    IN  IF T = S THEN S ELSE Reach(h, T)

Rank(S, r) == Cardinality({s \in S : s <= r})

Remap(R, base, r) == IF r \in R THEN base + Rank(R, r) ELSE r

CopyObj(o, R, base) ==
    [o EXCEPT !.inputs = Remap(R, base, @),
              !.outputs = Remap(R, base, @),
              !.derives_from = Remap(R, base, @),
              !.characteristics = Remap(R, base, @),
              !.prev_process = Remap(R, base, @),
              !.next_process = Remap(R, base, @),
              !.items = [k \in DOMAIN @ |-> Remap(R, base, @[k])]]

\* Faulty variant of DeepCopy: copy.copy, a new object sharing every referent
ShallowCopy(h, root) ==
    LET h1 == Append(h, h[root])
    IN  [heap |-> h1, ref |-> Len(h1)]

\* deepcopy(root): every object reachable from root is copied once (memo),
\* references inside the copies point at the copies.
DeepCopy(h, root) ==
    LET R    == Reach(h, {root})
        base == Len(h)
        new  == [k \in 1..Cardinality(R) |->
                    CopyObj(h[CHOOSE r \in R : Rank(R, r) = k], R, base)]
    IN  [heap |-> h \o new, ref |-> Remap(R, base, root)]

\* Faulty variant of JoinName1: one-based replica index
JoinName1OneBased(name, x) == name \o "-" \o ToString(x + 1)

\* '-'.join([name, str(x)])
JoinName1(name, x) == name \o "-" \o ToString(x)

\* Faulty variant of JoinName2: list position before replica index
JoinName2Swapped(name, x, y) == name \o "-" \o ToString(y) \o "-" \o ToString(x)

\* '-'.join([name, str(x), str(y)])
JoinName2(name, x, y) == name \o "-" \o ToString(x) \o "-" \o ToString(y)

\* ------------------------------------------------------------------- values
IntVal(v) == [type |-> "int", val |-> v]
StrVal == [type |-> "str", val |-> 0]

\* kwargs of a call: n absent, n an integer, or n of a type range() rejects
KwArgs ==
    {[k \in {} |-> StrVal]}
      \cup {[k \in {"n"} |-> IntVal(v)] : v \in 0..MaxN}
      \cup {[k \in {"n"} |-> StrVal]}

\* ------------------------------------------------------ prototypes (inputs)
ListLen == 2       \* number of nodes in a prototype list element

\* Lower-case tag used in the name of a prototype of the given class
Tag(kind) ==
    CASE kind = "Sample"         -> "sample"
      [] kind = "Material"       -> "material"
      [] kind = "Extract"        -> "extract"
      [] kind = "LabeledExtract" -> "lextract"
      [] kind = "Source"         -> "source"
      [] kind = "Process"        -> "process"
      [] OTHER                   -> "file"

\* One node built by client code: Sample(name=..), Process(name=..), ...
NewNode(h, kind, name) ==
    CASE kind = "Process"  -> NewProcess(h, name)
      [] kind = "DataFile" -> NewDataFile(h, name)
      [] OTHER             -> NewMaterial(h, kind, name, None, None)

\* ListLen distinct nodes of one class, named <tag><pos>_<y>
RECURSIVE NewNodes(_, _, _, _)
NewNodes(h, kind, pos, y) ==
    IF y = ListLen THEN [heap |-> h, refs |-> <<>>]
    ELSE LET e == NewNode(h, kind, Tag(kind) \o ToString(pos) \o "_" \o ToString(y))
             r == NewNodes(e.heap, kind, pos, y + 1)
         IN  [heap |-> r.heap, refs |-> <<e.ref>> \o r.refs]

\* The prototype at position pos of a chain, for a shape of chain element
BuildElem(h, shape, pos) ==
    CASE shape = "EmptyList" -> NewList(h, <<>>)
      [] shape \in {"SampleList", "MaterialList", "ProcessList"} ->
            LET kind == CASE shape = "SampleList"   -> "Sample"
                          [] shape = "MaterialList" -> "Material"
                          [] OTHER                  -> "Process"
                ns   == NewNodes(h, kind, pos, 0)
            IN  NewList(ns.heap, ns.refs)
      [] OTHER -> NewNode(h, shape, Tag(shape) \o ToString(pos))

RECURSIVE BuildChain(_, _, _)
BuildChain(h, shapes, pos) ==
    IF pos > Len(shapes) THEN [heap |-> h, refs |-> <<>>]
    ELSE LET e == BuildElem(h, shapes[pos], pos)
             r == BuildChain(e.heap, shapes, pos + 1)
         IN  [heap |-> r.heap, refs |-> <<e.ref>> \o r.refs]

\* Shapes enumerated freely in chains of up to MaxChain elements
Shapes == {"Sample", "Process", "SampleList", "ProcessList"}

ShortChains == UNION {[1..k -> Shapes] : k \in 0..MaxChain}

\* material, process, material, ..., material with k processes
MaterialKinds == <<"Sample", "Material", "LabeledExtract", "Extract">>

AltChain(k) ==
    [j \in 1..(2 * k + 1) |->
        IF j % 2 = 0 THEN "Process"
        ELSE MaterialKinds[(((j - 1) \div 2) % Len(MaterialKinds)) + 1]]

AltChains == {AltChain(k) : k \in 0..MaxK}

\* Chains with the remaining classes and with incomplete tails
ExtraChains ==
    { <<"Source", "Process", "Sample">>,
      <<"DataFile", "Process", "Sample">>,
      <<"EmptyList", "Process", "Extract">>,
      <<"Sample", "Process", "Source">>,
      <<"Material", "ProcessList", "MaterialList">>,
      <<"MaterialList", "Process", "LabeledExtract">>,
      <<"SampleList", "Process", "MaterialList">>,
      <<"Sample", "Process", "Material", "Process">>,
      <<"Sample", "Process", "Material", "Extract">> }

Chains == ShortChains \cup AltChains \cup ExtraChains

\* Prototype arguments of batch_create_materials
MaterialProtos ==
    {"Source", "Sample", "Material", "Extract", "LabeledExtract",
     "Process", "DataFile", "None"}

\* A prototype with one Characteristic and, where the class has the
\* attribute, a derives_from pointing at a Source (docstring example)
BuildMaterialProto(kind) ==
    IF kind = "None" THEN [heap |-> <<>>, refs |-> <<None>>]
    ELSE IF kind \in {"Process", "DataFile"} THEN
        LET e == NewNode(<<>>, kind, Tag(kind))
        IN  [heap |-> e.heap, refs |-> <<e.ref>>]
    ELSE
        LET c == NewCharacteristic(<<>>, 1)
            l == NewList(c.heap, <<c.ref>>)
            s == IF kind = "Source" THEN [heap |-> l.heap, ref |-> None]
                 ELSE NewMaterial(l.heap, "Source", "source_material", None, None)
            m == NewMaterial(s.heap, kind, Tag(kind), l.ref, s.ref)
        IN  [heap |-> m.heap, refs |-> <<m.ref>>]

\* --------------------------------------------- inputs of _build_assay_graph
MaxSeq == 2        \* longest process_sequence given to the graph builder

\* the two processes client code builds, and what it may put in their
\* inputs and outputs (a sample m1, a material m2, a data file d1)
Procs == {1, 2}

InOpts == {<<>>, <<"m1">>, <<"d1", "m2">>}

OutOpts == {<<>>, <<"d1">>, <<"m2", "d1">>}

\* process sequences over the two processes
ProcSeqs == UNION {[1..k -> Procs] : k \in 0..MaxSeq}

\* per process: inputs, outputs, and whether prev_process / next_process is
\* set (to the other process); and the sequence handed to the builder
GraphConfigs ==
    [ins : [Procs -> InOpts], outs : [Procs -> OutOpts],
     prev : [Procs -> BOOLEAN], next : [Procs -> BOOLEAN], seq : ProcSeqs]

\* Sample(), Material(), DataFile(), two Process() with their inputs,
\* outputs, prev_process and next_process assigned, and the sequence list
BuildGraph(c) ==
    LET a  == NewMaterial(<<>>, "Sample", "sample", None, None)
        b  == NewMaterial(a.heap, "Material", "material", None, None)
        d  == NewDataFile(b.heap, "file")
        p1 == NewProcess(d.heap, "process1")
        p2 == NewProcess(p1.heap, "process2")
        pr == <<p1.ref, p2.ref>>
        h  == p2.heap
        node(l) == CASE l = "m1" -> a.ref [] l = "m2" -> b.ref [] OTHER -> d.ref
        refsOf(ls) == [k \in DOMAIN ls |-> node(ls[k])]
        h1 == [h EXCEPT
                 ![h[pr[1]].inputs].items = refsOf(c.ins[1]),
                 ![h[pr[1]].outputs].items = refsOf(c.outs[1]),
                 ![h[pr[2]].inputs].items = refsOf(c.ins[2]),
                 ![h[pr[2]].outputs].items = refsOf(c.outs[2]),
                 ![pr[1]].prev_process = IF c.prev[1] THEN pr[2] ELSE None,
                 ![pr[1]].next_process = IF c.next[1] THEN pr[2] ELSE None,
                 ![pr[2]].prev_process = IF c.prev[2] THEN pr[1] ELSE None,
                 ![pr[2]].next_process = IF c.next[2] THEN pr[1] ELSE None]
        s  == NewList(h1, [k \in DOMAIN c.seq |-> pr[c.seq[k]]])
    IN  [heap |-> s.heap, refs |-> <<s.ref>>]

\* ------------------------------------------------- inputs of batch_set_attr
MaxItems == 2      \* longest list of items given to batch_set_attr

\* Python values assigned through setattr: type name and repr
PyText(t) == [type |-> "str", repr |-> t]

PyInt(n) == [type |-> "int", repr |-> ToString(n)]

PyNone == [type |-> "NoneType", repr |-> "None"]

\* what reading an attribute the object does not have gives
Absent == [type |-> "AttributeError", repr |-> ""]

\* bool(v) is False
Falsy(v) == v \in {PyText(""), PyInt(0), PyNone}

\* Comment(name='c', value='v'), ParameterValue(), OntologyAnnotation(term='t',
\* term_accession='a'), OntologyAnnotation()
NewItem(h, shape) ==
    LET o == CASE shape = "Comment" ->
                    [NewObj("Comment", "") EXCEPT
                        !.attrs = [name |-> PyText("c"), value |-> PyText("v")]]
               [] shape = "ParameterValue" ->
                    [NewObj("ParameterValue", "") EXCEPT
                        !.attrs = [category |-> PyNone, value |-> PyNone,
                                   unit |-> PyNone]]
               [] shape = "OntologyAnnotation" ->
                    [NewObj("OntologyAnnotation", "") EXCEPT
                        !.attrs = [term |-> PyText("t"),
                                   term_accession |-> PyText("a")]]
               [] OTHER ->
                    [NewObj("OntologyAnnotation", "") EXCEPT
                        !.attrs = [term |-> PyNone, term_accession |-> PyNone]]
        h1 == Append(h, o)
    IN  [heap |-> h1, ref |-> Len(h1)]

ItemShapes == {"Comment", "ParameterValue", "OntologyAnnotation", "EmptyAnnotation"}

ItemLists == UNION {[1..k -> ItemShapes] : k \in 0..MaxItems}

RECURSIVE NewItems(_, _, _)
NewItems(h, shapes, pos) ==
    IF pos > Len(shapes) THEN [heap |-> h, refs |-> <<>>]
    ELSE LET e == NewItem(h, shapes[pos])
             r == NewItems(e.heap, shapes, pos + 1)
         IN  [heap |-> r.heap, refs |-> <<e.ref>> \o r.refs]

\* the list l handed to batch_set_attr
BuildItems(shapes) ==
    LET ns == NewItems(<<>>, shapes, 1)
        l  == NewList(ns.heap, ns.refs)
    IN  [heap |-> l.heap, refs |-> <<l.ref>>]

\* the attr and val arguments
SetAttrArgs ==
    [attr : {"name", "value", "term", "term_accession"},
     val : {PyText("X"), PyText(""), PyInt(0), PyInt(5), PyNone}]

\* a call without keyword arguments
NoKwArgs == [k \in {} |-> StrVal]

\* -------------------------------------------------------------------- state
VARIABLES
    op,                \* the function called: "materials" or "assays"
    heap,              \* the objects, indexed by identity
    heap0,             \* the caller's objects as they were when the call began
    args,              \* positional arguments (references)
    kwargs,            \* keyword arguments
    x,                 \* replica index of the running loop
    i,                 \* position in args of the element being processed
    materialA, process, materialB,   \* the window of batch_create_assays
    process_sequence,  \* result of batch_create_assays
    material_list,     \* result of batch_create_materials
    pc,                \* "call", "loop", "fill", "wire", "done", "raised"
    error,             \* exception raised to the caller, or "none"
    muts,              \* client mutations applied after the call
    G                  \* edges of the graph _build_assay_graph is building

vars == <<op, heap, heap0, args, kwargs, x, i, materialA, process, materialB,
          process_sequence, material_list, pc, error, muts, G>>

Init ==
    /\ op \in {"materials", "assays", "graph", "set_attr"}
    /\ kwargs \in (CASE op \in {"materials", "assays"} -> KwArgs
                   [] op = "set_attr" -> SetAttrArgs
                   [] OTHER -> {NoKwArgs})
    /\ \E b \in (CASE op = "materials" -> {BuildMaterialProto(k) : k \in MaterialProtos}
                  [] op = "assays" -> {BuildChain(<<>>, c, 1) : c \in Chains}
                  [] op = "graph" -> {BuildGraph(c) : c \in GraphConfigs}
                  [] OTHER -> {BuildItems(c) : c \in ItemLists}) :
          /\ heap = b.heap
          /\ args = b.refs
    /\ heap0 = heap
    /\ x = 0
    /\ i = 1
    /\ materialA = None
    /\ process = None
    /\ materialB = None
    /\ process_sequence = <<>>
    /\ material_list = <<>>
    /\ pc = "call"
    /\ error = "none"
    /\ muts = 0
    /\ G = {}

\* ---------------------------------------------------- batch_create_materials
\* the n parameter: the keyword if given, else the default 1
ParamN == IF "n" \in DOMAIN kwargs THEN kwargs["n"] ELSE IntVal(1)

material == args[1]

\* lines 779-782: the isinstance test, then range(n)
BcmCall ==
    /\ op = "materials"
    /\ pc = "call"
    /\ material_list' = <<>>
    /\ x' = 0
    /\ IF ~IsInstance(heap, material, {"Source", "Sample", "Material"})
       THEN pc' = "done" /\ error' = error
       ELSE IF ParamN.type # "int"
       THEN pc' = "raised" /\ error' = "TypeError"
       ELSE pc' = (IF ParamN.val > 0 THEN "loop" ELSE "done") /\ error' = error
    /\ UNCHANGED <<G, op, heap, heap0, args, kwargs, i, materialA, process,
                   materialB, process_sequence, muts>>

\* lines 783-785: one iteration of the loop
BcmIter ==
    /\ op = "materials"
    /\ pc = "loop"
    /\ LET c == DeepCopy(heap, material)
       IN  /\ heap' = [c.heap EXCEPT ![c.ref].name = JoinName1(heap[material].name, x)]
           /\ material_list' = Append(material_list, c.ref)
    /\ x' = x + 1
    /\ pc' = IF x + 1 < ParamN.val THEN "loop" ELSE "done"
    /\ UNCHANGED <<G, op, heap0, args, kwargs, i, materialA, process, materialB,
                   process_sequence, error, muts>>

\* ------------------------------------------------------- batch_create_assays
IsList(h, ref) == ref # None /\ h[ref].kind = "list"

\* l.append(r)
ListAppend(h, l, r) == [h EXCEPT ![l].items = Append(@, r)]

\* y = 0; for node in lst: node.name = '-'.join([node.name, str(x), str(y)]); y += 1
RECURSIVE RenameItems(_, _, _, _)
RenameItems(h, items, rx, y) ==
    IF y >= Len(items) THEN h
    ELSE RenameItems([h EXCEPT ![items[y + 1]].name = JoinName2(@, rx, y)],
                     items, rx, y + 1)

\* for material in materialB: material.derives_from = materialA
RECURSIVE SetDerivesFrom(_, _, _, _)
SetDerivesFrom(h, items, k, mA) ==
    IF k > Len(items) THEN h
    ELSE SetDerivesFrom([h EXCEPT ![items[k]].derives_from = mA], items, k + 1, mA)

\* Faulty variant of WireOne: the materials of a materialB list get no derives_from
WireOneNoListDerives(h, p, mA, mB) ==
    LET h1 == IF IsList(h, mA)
              THEN [h EXCEPT ![p].inputs = mA]
              ELSE ListAppend(h, h[p].inputs, mA)
    IN  IF IsList(h1, mB)
        THEN [h1 EXCEPT ![p].outputs = mB]
        ELSE [ListAppend(h1, h1[p].outputs, mB) EXCEPT ![mB].derives_from = mA]

\* the wiring of one process p to the window's materials
WireOne(h, p, mA, mB) ==
    LET h1 == IF IsList(h, mA)
              THEN [h EXCEPT ![p].inputs = mA]
              ELSE ListAppend(h, h[p].inputs, mA)
    IN  IF IsList(h1, mB)
        THEN SetDerivesFrom([h1 EXCEPT ![p].outputs = mB], h1[mB].items, 1, mA)
        ELSE [ListAppend(h1, h1[p].outputs, mB) EXCEPT ![mB].derives_from = mA]

\* for p in process: <wire p>
RECURSIVE WireAll(_, _, _, _, _)
WireAll(h, ps, k, mA, mB) ==
    IF k > Len(ps) THEN h
    ELSE WireAll(WireOne(h, ps[k], mA, mB), ps, k + 1, mA, mB)

arg == args[i]

\* lines 820-826: n, the empty result and window, then range(n)
BcaCall ==
    /\ op = "assays"
    /\ pc = "call"
    /\ process_sequence' = <<>>
    /\ materialA' = None
    /\ process' = None
    /\ materialB' = None
    /\ x' = 0
    /\ i' = 1
    /\ IF ParamN.type # "int"
       THEN pc' = "raised" /\ error' = "TypeError"
       ELSE /\ pc' = IF ParamN.val > 0 /\ Len(args) > 0 THEN "fill" ELSE "done"
            /\ error' = error
    /\ UNCHANGED <<G, op, heap, heap0, args, kwargs, material_list, muts>>

ArgIsMaterialList ==
    /\ IsList(heap, arg)
    /\ heap[arg].items # <<>>
    /\ IsInstance(heap, heap[arg].items[1], {"Sample", "Material"})

ArgIsProcessList ==
    /\ IsList(heap, arg)
    /\ heap[arg].items # <<>>
    /\ ~IsInstance(heap, heap[arg].items[1], {"Sample", "Material"})
    /\ IsInstance(heap, heap[arg].items[1], {"Process"})

ArgIsMaterial == IsInstance(heap, arg, {"Sample", "Material"})

ArgIsProcess == ~ArgIsMaterial /\ IsInstance(heap, arg, {"Process"})

\* lines 829-841: a list of materials is copied into materialA or materialB
FillMaterialList ==
    /\ op = "assays"
    /\ pc = "fill"
    /\ ArgIsMaterialList
    /\ LET c == DeepCopy(heap, arg)
       IN  /\ heap' = RenameItems(c.heap, c.heap[c.ref].items, x, 0)
           /\ IF materialA = None
              THEN materialA' = c.ref /\ materialB' = materialB
              ELSE materialB' = c.ref /\ materialA' = materialA
    /\ pc' = "wire"
    /\ UNCHANGED <<G, op, heap0, args, kwargs, x, i, process, process_sequence,
                   material_list, error, muts>>

\* lines 842-847: a list of processes is copied into process
FillProcessList ==
    /\ op = "assays"
    /\ pc = "fill"
    /\ ArgIsProcessList
    /\ LET c == DeepCopy(heap, arg)
       IN  /\ heap' = RenameItems(c.heap, c.heap[c.ref].items, x, 0)
           /\ process' = c.ref
    /\ pc' = "wire"
    /\ UNCHANGED <<G, op, heap0, args, kwargs, x, i, materialA, materialB,
                   process_sequence, material_list, error, muts>>

\* lines 848-854: a single material is copied into materialA or materialB
FillMaterial ==
    /\ op = "assays"
    /\ pc = "fill"
    /\ ArgIsMaterial
    /\ LET c == DeepCopy(heap, arg)
       IN  /\ heap' = [c.heap EXCEPT ![c.ref].name = JoinName1(@, x)]
           /\ IF materialA = None
              THEN materialA' = c.ref /\ materialB' = materialB
              ELSE materialB' = c.ref /\ materialA' = materialA
    /\ pc' = "wire"
    /\ UNCHANGED <<G, op, heap0, args, kwargs, x, i, process, process_sequence,
                   material_list, error, muts>>

\* lines 855-857: a single process is copied into process
FillProcess ==
    /\ op = "assays"
    /\ pc = "fill"
    /\ ArgIsProcess
    /\ LET c == DeepCopy(heap, arg)
       IN  /\ heap' = [c.heap EXCEPT ![c.ref].name = JoinName1(@, x)]
           /\ process' = c.ref
    /\ pc' = "wire"
    /\ UNCHANGED <<G, op, heap0, args, kwargs, x, i, materialA, materialB,
                   process_sequence, material_list, error, muts>>

\* lines 828-857 with no branch taken: the element fills no slot
FillSkip ==
    /\ op = "assays"
    /\ pc = "fill"
    /\ ~ArgIsMaterialList
    /\ ~ArgIsProcessList
    /\ ~ArgIsMaterial
    /\ ~ArgIsProcess
    /\ pc' = "wire"
    /\ UNCHANGED <<G, op, heap, heap0, args, kwargs, x, i, materialA, process,
                   materialB, process_sequence, material_list, error, muts>>

\* Faulty variant of Advance: one replica too many (range(n + 1))
AdvanceOneMore ==
    IF i < Len(args)
    THEN i' = i + 1 /\ x' = x /\ pc' = "fill"
    ELSE IF x + 1 < ParamN.val + 1
    THEN i' = 1 /\ x' = x + 1 /\ pc' = "fill"
    ELSE i' = i /\ x' = x /\ pc' = "done"

\* the two for statements of lines 826-827: next element, next replica, or return
Advance ==
    IF i < Len(args)
    THEN i' = i + 1 /\ x' = x /\ pc' = "fill"
    ELSE IF x + 1 < ParamN.val
    THEN i' = 1 /\ x' = x + 1 /\ pc' = "fill"
    ELSE i' = i /\ x' = x /\ pc' = "done"

WindowFull == materialA # None /\ materialB # None /\ process # None

\* lines 859-871 and 885-887: the window holds a list of processes
WireProcessList ==
    /\ op = "assays"
    /\ pc = "wire"
    /\ WindowFull
    /\ IsList(heap, process)
    /\ heap' = WireAll(heap, heap[process].items, 1, materialA, materialB)
    /\ process_sequence' = process_sequence
    /\ materialA' = materialB
    /\ process' = None
    /\ materialB' = None
    /\ Advance
    /\ UNCHANGED <<G, op, heap0, args, kwargs, material_list, error, muts>>

\* Faulty variant of WireProcess: the window does not slide (materialA is kept)
WireProcessNoSlide ==
    /\ op = "assays"
    /\ pc = "wire"
    /\ WindowFull
    /\ ~IsList(heap, process)
    /\ heap' = WireOne(heap, process, materialA, materialB)
    /\ process_sequence' = Append(process_sequence, process)
    /\ materialA' = materialA
    /\ process' = None
    /\ materialB' = None
    /\ Advance
    /\ UNCHANGED <<G, op, heap0, args, kwargs, material_list, error, muts>>

\* lines 872-887: the window holds a single process
WireProcess ==
    /\ op = "assays"
    /\ pc = "wire"
    /\ WindowFull
    /\ ~IsList(heap, process)
    /\ heap' = WireOne(heap, process, materialA, materialB)
    /\ process_sequence' = Append(process_sequence, process)
    /\ materialA' = materialB
    /\ process' = None
    /\ materialB' = None
    /\ Advance
    /\ UNCHANGED <<G, op, heap0, args, kwargs, material_list, error, muts>>

\* line 858 false: the window is not full, nothing is wired
NoWire ==
    /\ op = "assays"
    /\ pc = "wire"
    /\ ~WindowFull
    /\ Advance
    /\ UNCHANGED <<G, op, heap, heap0, args, kwargs, materialA, process, materialB,
                   process_sequence, material_list, error, muts>>

\* ------------------------------------------- client code after the batch call
\* a returned material's characteristics list
CharList(h, m) == h[m].characteristics

\* material_list[j].characteristics.append(Characteristic(value=2))
AppendCharacteristic(j) ==
    LET c == NewCharacteristic(heap, 2)
    IN  /\ CharList(heap, material_list[j]) # None
        /\ heap' = ListAppend(c.heap, CharList(heap, material_list[j]), c.ref)

\* material_list[j].characteristics.pop()
RemoveCharacteristic(j) ==
    LET l == CharList(heap, material_list[j])
    IN  /\ l # None
        /\ heap[l].items # <<>>
        /\ heap' = [heap EXCEPT ![l].items = SubSeq(@, 1, Len(@) - 1)]

\* material_list[j].characteristics[0].value += 1
SetCharacteristicValue(j) ==
    LET l == CharList(heap, material_list[j])
    IN  /\ l # None
        /\ heap[l].items # <<>>
        /\ heap' = [heap EXCEPT ![heap[l].items[1]].value = @ + 1]

ClientFrame ==
    /\ op = "materials"
    /\ pc = "done"
    /\ muts < MaxMut
    /\ muts' = muts + 1
    /\ UNCHANGED <<G, op, heap0, args, kwargs, x, i, materialA, process, materialB,
                   process_sequence, material_list, pc, error>>

ClientAppend == ClientFrame /\ \E j \in DOMAIN material_list : AppendCharacteristic(j)

ClientRemove == ClientFrame /\ \E j \in DOMAIN material_list : RemoveCharacteristic(j)

ClientSetValue == ClientFrame /\ \E j \in DOMAIN material_list : SetCharacteristicValue(j)

\* -------------------------------------------------------- _build_assay_graph
\* the process_sequence argument
PSeq == heap[args[1]].items

\* Faulty variant of ForwardEdges: the next_process edge is added as well
ForwardEdgesAlsoNext(h, p) ==
    LET outs == h[h[p].outputs].items
        toOuts == {<<p, outs[k]>> : k \in {j \in DOMAIN outs :
                                     ~IsInstance(h, outs[j], {"DataFile"})}}
    IN  IF h[p].next_process # None THEN toOuts \cup {<<p, h[p].next_process>>}
        ELSE toOuts

\* Faulty variant of ForwardEdges: data files are not filtered out
ForwardEdgesAllOutputs(h, p) ==
    LET outs == h[h[p].outputs].items
    IN  IF h[p].next_process # None \/ outs # <<>>
        THEN IF outs # <<>>
             THEN {<<p, outs[k]>> : k \in DOMAIN outs}
             ELSE {<<p, h[p].next_process>>}
        ELSE {}

\* lines 26-31: edges to the outputs that are not data files, else to
\* next_process
ForwardEdges(h, p) ==
    LET outs == h[h[p].outputs].items
    IN  IF h[p].next_process # None \/ outs # <<>>
        THEN IF outs # <<>>
             THEN {<<p, outs[k]>> : k \in {j \in DOMAIN outs :
                                     ~IsInstance(h, outs[j], {"DataFile"})}}
             ELSE {<<p, h[p].next_process>>}
        ELSE {}

\* Faulty variant of BackwardEdges: the prev_process edge is added as well
BackwardEdgesAlsoPrev(h, p) ==
    LET ins == h[h[p].inputs].items
        fromIns == {<<ins[k], p>> : k \in DOMAIN ins}
    IN  IF h[p].prev_process # None THEN fromIns \cup {<<h[p].prev_process, p>>}
        ELSE fromIns

\* lines 33-37: edges from the inputs, else from prev_process
BackwardEdges(h, p) ==
    LET ins == h[h[p].inputs].items
    IN  IF ins # <<>>
        THEN {<<ins[k], p>> : k \in DOMAIN ins}
        ELSE IF h[p].prev_process # None
        THEN {<<h[p].prev_process, p>>}
        ELSE {}

\* line 24: the empty graph, then the for statement of line 25
GraphCall ==
    /\ op = "graph"
    /\ pc = "call"
    /\ G' = {}
    /\ i' = 1
    /\ pc' = IF PSeq # <<>> THEN "graph" ELSE "done"
    /\ UNCHANGED <<op, heap, heap0, args, kwargs, x, materialA, process,
                   materialB, process_sequence, material_list, error, muts>>

\* lines 26-37: the edges one process of the sequence contributes
GraphStep ==
    /\ op = "graph"
    /\ pc = "graph"
    /\ G' = G \cup ForwardEdges(heap, PSeq[i]) \cup BackwardEdges(heap, PSeq[i])
    /\ i' = i + 1
    /\ pc' = IF i < Len(PSeq) THEN "graph" ELSE "done"
    /\ UNCHANGED <<op, heap, heap0, args, kwargs, x, materialA, process,
                   materialB, process_sequence, material_list, error, muts>>

\* ------------------------------------------------------------ batch_set_attr
\* the l, attr and val arguments
Items == heap[args[1]].items

attr == kwargs.attr

val == kwargs.val

\* the types a validated property declares: (types, allow_empty); plain
\* attributes declare nothing
Declared(kind, a) ==
    CASE kind = "Comment" /\ a = "name" ->
            [types |-> {"str", "NoneType"}, allow_empty |-> FALSE, validated |-> TRUE]
      [] kind = "Comment" /\ a = "value" ->
            [types |-> {"str", "int", "float", "NoneType"}, allow_empty |-> TRUE,
             validated |-> TRUE]
      [] kind = "OntologyAnnotation" /\ a \in {"term", "term_accession"} ->
            [types |-> {"str", "NoneType"}, allow_empty |-> TRUE, validated |-> TRUE]
      [] OTHER -> [types |-> {}, allow_empty |-> TRUE, validated |-> FALSE]

\* the accepts decorator: the outcomes of assigning v (TRUE = the setter
\* runs, FALSE = a validation failure is raised).  A type outside the
\* declared set fails, an empty text fails where empty is not allowed; for
\* None where empty is not allowed either outcome is possible.
Accepts(d, v) ==
    IF ~d.validated THEN {TRUE}
    ELSE IF v.type \notin d.types THEN {FALSE}
    ELSE IF ~d.allow_empty /\ v = PyText("") THEN {FALSE}
    ELSE IF ~d.allow_empty /\ v = PyNone THEN {TRUE, FALSE}
    ELSE {TRUE}

\* Faulty variant of StoreAttr: setattr(i, attr, attr)
StoreAttrName(h, r, a, v) ==
    [h EXCEPT ![r].attrs =
        [b \in DOMAIN @ \cup {a} |-> IF b = a THEN PyText(a) ELSE @[b]]]

\* the setter body / plain attribute assignment: the value is stored
StoreAttr(h, r, a, v) ==
    [h EXCEPT ![r].attrs =
        [b \in DOMAIN @ \cup {a} |-> IF b = a THEN v ELSE @[b]]]

\* the getters: Comment.value and OntologyAnnotation.term read None for a
\* falsy stored value, OntologyAnnotation.term_accession reads None while
\* the stored term is falsy, everything else reads the stored value
GetAttr(h, r, a) ==
    LET o == h[r]
    IN  IF a \notin DOMAIN o.attrs THEN Absent
        ELSE IF o.kind = "Comment" /\ a = "value"
        THEN (IF Falsy(o.attrs[a]) THEN PyNone ELSE o.attrs[a])
        ELSE IF o.kind = "OntologyAnnotation" /\ a = "term"
        THEN (IF Falsy(o.attrs[a]) THEN PyNone ELSE o.attrs[a])
        ELSE IF o.kind = "OntologyAnnotation" /\ a = "term_accession"
        THEN (IF Falsy(o.attrs["term"]) THEN PyNone ELSE o.attrs[a])
        ELSE o.attrs[a]

\* line 892: the for statement is entered
BsaCall ==
    /\ op = "set_attr"
    /\ pc = "call"
    /\ i' = 1
    /\ pc' = IF Items # <<>> THEN "set" ELSE "done"
    /\ UNCHANGED <<G, op, heap, heap0, args, kwargs, x, materialA, process,
                   materialB, process_sequence, material_list, error, muts>>

\* line 893: setattr(i, attr, val) succeeds
BsaSet ==
    /\ op = "set_attr"
    /\ pc = "set"
    /\ TRUE \in Accepts(Declared(heap[Items[i]].kind, attr), val)
    /\ heap' = StoreAttr(heap, Items[i], attr, val)
    /\ i' = i + 1
    /\ pc' = IF i < Len(Items) THEN "set" ELSE "done"
    /\ UNCHANGED <<G, op, heap0, args, kwargs, x, materialA, process, materialB,
                   process_sequence, material_list, error, muts>>

\* line 893: the setter raises, the exception leaves batch_set_attr
BsaRaise ==
    /\ op = "set_attr"
    /\ pc = "set"
    /\ FALSE \in Accepts(Declared(heap[Items[i]].kind, attr), val)
    /\ pc' = "raised"
    /\ error' = "ValidationError"
    /\ UNCHANGED <<G, op, heap, heap0, args, kwargs, x, i, materialA, process,
                   materialB, process_sequence, material_list, muts>>

Next ==
    \/ BcmCall
    \/ BcmIter
    \/ BcaCall
    \/ FillMaterialList
    \/ FillProcessList
    \/ FillMaterial
    \/ FillProcess
    \/ FillSkip
    \/ WireProcessList
    \/ WireProcess
    \/ NoWire
    \/ ClientAppend
    \/ ClientRemove
    \/ ClientSetValue
    \/ GraphCall
    \/ GraphStep
    \/ BsaCall
    \/ BsaSet
    \/ BsaRaise

Spec == Init /\ [][Next]_vars

\* ============================================================== properties
\* The call has returned normally
Returned == pc = "done" /\ error = "none"

\* The classes of the data model, as the claims name them
MaterialClasses == {"Sample", "Material", "Extract", "LabeledExtract"}

SupportedClasses == MaterialClasses \cup {"Source"}

\* the caller's object r is of one of the given classes
IsOf(r, classes) == r # None /\ heap0[r].kind \in classes

\* Objects created by the call (not the caller's prototypes)
IsCopy(r) == r > Len(heap0)

\* The nodes of a chain element: the items of a list, else the node itself
Nodes(h, r) == IF IsList(h, r) THEN h[r].items ELSE <<r>>

\* args is a chain of single nodes: material, process, material, ... with
\* k processes, every prototype process having empty inputs and outputs
IsAltChain(k) ==
    /\ op = "assays"
    /\ Len(args) = 2 * k + 1
    /\ \A j \in 1..Len(args) :
          IF j % 2 = 1
          THEN IsOf(args[j], MaterialClasses)
          ELSE /\ IsOf(args[j], {"Process"})
               /\ heap0[heap0[args[j]].inputs].items = <<>>
               /\ heap0[heap0[args[j]].outputs].items = <<>>

\* The n the caller asked for: the keyword, or 1 when it is omitted
AskedN == IF "n" \in DOMAIN kwargs THEN kwargs["n"].val ELSE 1

NIsInt == "n" \in DOMAIN kwargs => kwargs["n"].type = "int"

\* The documented names: <name>-<x> and <name>-<x>-<y>
Suffix1(name, rx) == name \o "-" \o ToString(rx)

Suffix2(name, rx, y) == name \o "-" \o ToString(rx) \o "-" \o ToString(y)

\* r is the copy made for replica rx of the single-node prototype proto
IsReplicaOf(r, proto, rx) ==
    /\ IsCopy(r)
    /\ heap[r].kind = heap0[proto].kind
    /\ heap[r].name = Suffix1(heap0[proto].name, rx)

\* r is the copy made for replica rx of the node at position y of a list
IsReplicaOfItem(r, proto, rx, y) ==
    /\ IsCopy(r)
    /\ heap[r].kind = heap0[proto].kind
    /\ heap[r].name = Suffix2(heap0[proto].name, rx, y)

\* rs are, in order, the copies made for replica rx of the nodes of the
\* chain element proto (a single node or a list of nodes)
AreReplicasOf(rs, proto, rx) ==
    IF IsList(heap0, proto)
    THEN /\ Len(rs) = Len(heap0[proto].items)
         /\ \A y \in 0..(Len(rs) - 1) :
               IsReplicaOfItem(rs[y + 1], heap0[proto].items[y + 1], rx, y)
    ELSE /\ Len(rs) = 1
         /\ IsReplicaOf(rs[1], proto, rx)

\* a chain element that is a material node or a non-empty list of them
IsMaterialElem(r) ==
    \/ IsOf(r, MaterialClasses)
    \/ /\ IsList(heap0, r)
       /\ heap0[r].items # <<>>
       /\ \A k \in DOMAIN heap0[r].items :
             IsOf(heap0[r].items[k], MaterialClasses)

IsProcessListElem(r) ==
    /\ IsList(heap0, r)
    /\ heap0[r].items # <<>>
    /\ \A k \in DOMAIN heap0[r].items :
          IsOf(heap0[r].items[k], {"Process"})

Inputs(p) == heap[heap[p].inputs].items

Outputs(p) == heap[heap[p].outputs].items

\* C1: for the chain (sample, process, material) and n >= 1 the call returns
\* n processes, and the x-th one has inputs [replica x's sample], outputs
\* [replica x's material], that material deriving from that very sample.
C1_ReplicaWiring ==
    (IsAltChain(1) /\ Returned /\ AskedN >= 1) =>
        /\ Len(process_sequence) = AskedN
        /\ \A rx \in 0..(AskedN - 1) :
              LET p   == process_sequence[rx + 1]
                  ins == Inputs(p)
                  out == Outputs(p)
              IN  /\ IsReplicaOf(p, args[2], rx)
                  /\ Len(ins) = 1
                  /\ IsReplicaOf(ins[1], args[1], rx)
                  /\ Len(out) = 1
                  /\ IsReplicaOf(out[1], args[3], rx)
                  /\ heap[out[1]].derives_from = ins[1]

\* C2: for the chain (materialA, [p1, ..., pk], materialB) the result holds k
\* processes per replica, each wired to the replica's full materialA input
\* set and to the replica's materialB as outputs.
C2_ProcessListAppended ==
    LET k == Len(heap0[args[2]].items)
    IN  ( /\ op = "assays"
          /\ Len(args) = 3
          /\ IsMaterialElem(args[1])
          /\ IsProcessListElem(args[2])
          /\ IsMaterialElem(args[3])
          /\ Returned
          /\ AskedN >= 1 ) =>
            /\ Len(process_sequence) = k * AskedN
            /\ \A rx \in 0..(AskedN - 1) : \A y \in 0..(k - 1) :
                  LET p == process_sequence[rx * k + y + 1]
                  IN  /\ IsReplicaOfItem(p, heap0[args[2]].items[y + 1], rx, y)
                      /\ AreReplicasOf(Inputs(p), args[1], rx)
                      /\ AreReplicasOf(Outputs(p), args[3], rx)

\* a well-formed alternating chain followed by one more single node (a
\* Process with no following material, or a material with no process before)
HasTrailingElem ==
    /\ op = "assays"
    /\ Len(args) % 2 = 0
    /\ Len(args) >= 2
    /\ \A j \in 1..(Len(args) - 1) :
          IF j % 2 = 1
          THEN IsOf(args[j], MaterialClasses)
          ELSE IsOf(args[j], {"Process"})
    /\ IsOf(args[Len(args)], MaterialClasses \cup {"Process"})

\* r is a copy, for some replica, of the last element of the chain
IsTrailingCopy(r) ==
    \E rx \in 0..MaxN : IsReplicaOf(r, args[Len(args)], rx)

\* C3: a trailing element that completes no triple is dropped: no copy of it
\* is returned or is an input or output of a returned process.
C3_TrailingDropped ==
    (HasTrailingElem /\ Returned /\ AskedN >= 1) =>
        \A k \in DOMAIN process_sequence :
            LET p == process_sequence[k]
            IN  /\ ~IsTrailingCopy(p)
                /\ \A j \in DOMAIN Inputs(p) : ~IsTrailingCopy(Inputs(p)[j])
                /\ \A j \in DOMAIN Outputs(p) : ~IsTrailingCopy(Outputs(p)[j])

\* the number of processes of a chain of 2k+1 elements
NumProcesses == (Len(args) - 1) \div 2

\* C4: a well-formed alternating chain with k processes yields k*n processes,
\* replica-major and in chain order inside a replica; n omitted counts as 1.
C4_CountAndOrder ==
    (IsAltChain(NumProcesses) /\ Returned) =>
        /\ Len(process_sequence) = NumProcesses * AskedN
        /\ \A rx \in 0..(AskedN - 1) : \A j \in 1..NumProcesses :
              IsReplicaOf(process_sequence[rx * NumProcesses + j], args[2 * j], rx)

C4_Witness ==
    /\ IsAltChain(2)
    /\ Returned
    /\ AskedN = 3
    /\ Len(process_sequence) = 6

\* the chain ([s1, s2], process, [m1, m2]) called with n = 1
IsFanChain ==
    /\ op = "assays"
    /\ Len(args) = 3
    /\ IsList(heap0, args[1])
    /\ IsMaterialElem(args[1])
    /\ IsOf(args[2], {"Process"})
    /\ IsList(heap0, args[3])
    /\ IsMaterialElem(args[3])
    /\ AskedN = 1

\* C5: for ([s1, s2], process, [m1, m2]) and n = 1 one process is returned;
\* its inputs are the copies of s1, s2, its outputs the copies of m1, m2, and
\* every copied material derives from the list that is the process's inputs.
C5_FanOutWiring ==
    (IsFanChain /\ Returned) =>
        /\ Len(process_sequence) = 1
        /\ LET p == process_sequence[1]
           IN  /\ IsReplicaOf(p, args[2], 0)
               /\ AreReplicasOf(Inputs(p), args[1], 0)
               /\ AreReplicasOf(Outputs(p), args[3], 0)
               /\ \A j \in DOMAIN Outputs(p) :
                     /\ heap[Outputs(p)[j]].derives_from = heap[p].inputs
                     /\ IsList(heap, heap[Outputs(p)[j]].derives_from)

C5_Witness ==
    /\ IsFanChain
    /\ Returned
    /\ Len(process_sequence) = 1
    /\ Len(Outputs(process_sequence[1])) = ListLen

\* the chain (A, p1, B, p2, C) called with n = 1
IsTwoStageChain == IsAltChain(2) /\ AskedN = 1

\* C6: in (A, p1, B, p2, C) with n = 1 the window slides after each triple:
\* once (A, p1, B) is wired the window holds B's copy alone until p2 and C
\* fill it, and at the end B's copy is both the output of p1's copy and the
\* input of p2's copy, C's copy derives from it and it derives from A's copy.
C6_WindowSlides ==
    IsTwoStageChain =>
        /\ (pc = "fill" /\ i = 4) =>
              /\ IsReplicaOf(materialA, args[3], 0)
              /\ process = None
              /\ materialB = None
              /\ Len(process_sequence) = 1
        /\ (pc = "wire" /\ i = 4) =>
              /\ IsReplicaOf(materialA, args[3], 0)
              /\ IsReplicaOf(process, args[4], 0)
              /\ materialB = None
        /\ Returned =>
              /\ IsReplicaOf(materialA, args[5], 0)
              /\ process = None
              /\ materialB = None
              /\ Len(process_sequence) = 2
              /\ LET q1 == process_sequence[1]
                     q2 == process_sequence[2]
                 IN  /\ Len(Outputs(q1)) = 1
                     /\ Inputs(q2) = Outputs(q1)
                     /\ IsReplicaOf(Outputs(q1)[1], args[3], 0)
                     /\ Len(Outputs(q2)) = 1
                     /\ IsReplicaOf(Outputs(q2)[1], args[5], 0)
                     /\ heap[Outputs(q2)[1]].derives_from = Outputs(q1)[1]
                     /\ Len(Inputs(q1)) = 1
                     /\ IsReplicaOf(Inputs(q1)[1], args[1], 0)
                     /\ heap[Outputs(q1)[1]].derives_from = Inputs(q1)[1]

C6_Witness ==
    /\ IsTwoStageChain
    /\ Returned
    /\ Len(process_sequence) = 2
    /\ heap[materialA].derives_from # None

\* the slot the element just processed was copied into
FilledSlot ==
    IF ArgIsProcess \/ ArgIsProcessList THEN process
    ELSE IF materialB # None THEN materialB ELSE materialA

\* C7: the copies made of a chain element for replica x are named
\* <prototype name>-x (single node) or <prototype name>-x-y (node y of a list).
C7_CopyNames ==
    ( /\ op = "assays"
      /\ pc = "wire"
      /\ ArgIsMaterial \/ ArgIsProcess \/ ArgIsMaterialList \/ ArgIsProcessList ) =>
        /\ IsCopy(FilledSlot)
        /\ IsList(heap, FilledSlot) = IsList(heap0, arg)
        /\ AreReplicasOf(Nodes(heap, FilledSlot), arg, x)

C7_Witness ==
    /\ op = "assays"
    /\ pc = "wire"
    /\ x = 2
    /\ ArgIsProcessList
    /\ heap[heap[process].items[2]].name = heap0[heap0[arg].items[2]].name \o "-2-1"

\* the prototype is of a class batch_create_materials supports
IsSupportedProto ==
    /\ op = "materials"
    /\ IsOf(material, SupportedClasses)

\* C8: for a Source, Sample or Material prototype and n >= 0 the call returns
\* n objects named <prototype name>-0 .. <prototype name>-(n-1) in order,
\* pairwise distinct and distinct from the prototype.
C8_MaterialBatch ==
    (IsSupportedProto /\ Returned) =>
        /\ Len(material_list) = AskedN
        /\ \A k \in DOMAIN material_list :
              /\ heap[material_list[k]].name = Suffix1(heap0[material].name, k - 1)
              /\ heap[material_list[k]].kind = heap0[material].kind
              /\ material_list[k] # material
              /\ IsCopy(material_list[k])
              /\ \A l \in DOMAIN material_list :
                    l # k => material_list[l] # material_list[k]

C8_Witness ==
    /\ IsSupportedProto
    /\ heap0[material].kind = "LabeledExtract"
    /\ Returned
    /\ Len(material_list) = 3
    /\ heap[material_list[3]].name = "lextract-2"

\* C9: for an argument that is not a Source, Sample or Material the call
\* returns an empty list whatever n is, raises nothing and changes no object.
C9_UnsupportedNoOp ==
    (op = "materials" /\ ~IsSupportedProto) =>
        /\ pc \in {"call", "done"}
        /\ error = "none"
        /\ material_list = <<>>
        /\ heap = heap0

C9_Witness ==
    /\ op = "materials"
    /\ material # None
    /\ heap0[material].kind = "Process"
    /\ ~NIsInt
    /\ pc = "done"
    /\ material_list = <<>>

\* the values of the Characteristics in m.characteristics, in order
CharView(h, m) ==
    [k \in DOMAIN h[CharList(h, m)].items |-> h[h[CharList(h, m)].items[k]].value]

\* C10: adding, removing or mutating a Characteristic of one returned
\* material changes the characteristics of no other returned material and
\* not those of the prototype.
C10_Isolation ==
    [][\A j \in DOMAIN material_list :
          (ClientFrame /\ (\/ AppendCharacteristic(j)
                           \/ RemoveCharacteristic(j)
                           \/ SetCharacteristicValue(j))) =>
              /\ CharView(heap', material) = CharView(heap, material)
              /\ \A k \in DOMAIN material_list :
                    k # j => CharView(heap', material_list[k])
                                = CharView(heap, material_list[k])]_vars

C10_Witness ==
    /\ IsSupportedProto
    /\ pc = "done"
    /\ muts = 2
    /\ Len(material_list) >= 2
    /\ CharView(heap, material_list[1]) = <<2>>
    /\ CharView(heap, material_list[2]) = <<1>>
    /\ CharView(heap, material) = <<1>>

\* the prototype of batch_create_materials derives from a Source
ProtoDerivesFromSource ==
    /\ IsSupportedProto
    /\ IsOf(heap0[material].derives_from, {"Source"})

\* C11: every sample returned for a prototype deriving from a Source derives
\* from that one Source object, the one the prototype derives from.
C11_SharedSource ==
    (ProtoDerivesFromSource /\ Returned) =>
        \A k \in DOMAIN material_list :
            heap[material_list[k]].derives_from = heap0[material].derives_from

\* prototypes are left as they were and nothing returned is a prototype
PrototypesUntouched ==
    /\ Len(heap) >= Len(heap0)
    /\ \A r \in DOMAIN heap0 : heap[r] = heap0[r]
    /\ \A k \in DOMAIN material_list : IsCopy(material_list[k])
    /\ \A k \in DOMAIN process_sequence :
          LET p == process_sequence[k]
          IN  /\ IsCopy(p)
              /\ IsCopy(heap[p].inputs)
              /\ IsCopy(heap[p].outputs)
              /\ \A j \in DOMAIN Inputs(p) : IsCopy(Inputs(p)[j])
              /\ \A j \in DOMAIN Outputs(p) : IsCopy(Outputs(p)[j])

\* C12: batch_create_materials and batch_create_assays never modify their
\* prototypes, and no returned process, input or output is a prototype.
C12_PrototypesReadOnly ==
    (op \in {"materials", "assays"}) => PrototypesUntouched

C12_Witness ==
    /\ op = "assays"
    /\ Returned
    /\ Len(process_sequence) >= 2
    /\ IsList(heap0, args[1])
    /\ Len(Outputs(process_sequence[2])) >= 1

\* the chain (source, process, sample): a Source in first position
IsSourceFirstChain ==
    /\ op = "assays"
    /\ Len(args) = 3
    /\ IsOf(args[1], {"Source"})
    /\ IsOf(args[2], {"Process"})
    /\ IsOf(args[3], MaterialClasses)

\* the caller's chain element r is one batch_create_assays has no branch for
IsForeignElem(r) ==
    \/ IsOf(r, {"Source", "DataFile"})
    \/ (IsOf(r, {"list"}) /\ heap0[r].items = <<>>)

\* slot s holds a copy of the caller's chain element r
SlotHoldsCopyOf(s, r) ==
    /\ s # None
    /\ IF IsList(heap0, r)
       THEN IsCopy(s) /\ IsList(heap, s) /\ heap[s].items = <<>>
       ELSE \E rx \in 0..MaxN : IsReplicaOf(s, r, rx)

\* C18: a Source, DataFile or empty list in the chain fills no window slot,
\* and batch_create_assays(source, process, sample, n=n) returns [] for every n.
C18_ForeignElemSkipped ==
    /\ (op = "assays" /\ pc = "wire" /\ IsForeignElem(arg)) =>
          /\ error = "none"
          /\ ~SlotHoldsCopyOf(materialA, arg)
          /\ ~SlotHoldsCopyOf(process, arg)
          /\ ~SlotHoldsCopyOf(materialB, arg)
    /\ (IsSourceFirstChain /\ Returned) => process_sequence = <<>>

\* the graph builder has returned its graph
GraphBuilt == op = "graph" /\ pc = "done"

\* the processes of the sequence given to the graph builder
SeqProcs == {heap0[args[1]].items[k] : k \in DOMAIN heap0[args[1]].items}

InputsOf(p) == heap0[heap0[p].inputs].items

OutputsOf(p) == heap0[heap0[p].outputs].items

IsDataFile(r) == heap0[r].kind = "DataFile"

\* p has both outputs and a next_process
HasOutputsAndNext(p) == OutputsOf(p) # <<>> /\ heap0[p].next_process # None

\* p has both inputs and a prev_process
HasInputsAndPrev(p) == InputsOf(p) # <<>> /\ heap0[p].prev_process # None

\* every output of p that is not a data file has an edge from p
EdgesToOutputs(p) ==
    \A k \in DOMAIN OutputsOf(p) :
        ~IsDataFile(OutputsOf(p)[k]) => <<p, OutputsOf(p)[k]>> \in G

\* every input of p has an edge into p
EdgesFromInputs(p) ==
    \A k \in DOMAIN InputsOf(p) : <<InputsOf(p)[k], p>> \in G

\* C13 as stated: a process with outputs and a next_process has an edge to
\* each non-data-file output and no edge to its next_process.
C13_OutputsPrecedence ==
    GraphBuilt =>
        \A p \in SeqProcs :
            HasOutputsAndNext(p) =>
                /\ EdgesToOutputs(p)
                /\ <<p, heap0[p].next_process>> \notin G

\* q is in the sequence, has no inputs and names p as its prev_process
LinkedBackTo(q, p) ==
    /\ q \in SeqProcs
    /\ InputsOf(q) = <<>>
    /\ heap0[q].prev_process = p

\* C13 amended: a process with outputs and a next_process has an edge to each
\* non-data-file output, and an edge to its next_process only when that
\* process is in the sequence with empty inputs and this process as its
\* prev_process.
C13_OutputsPrecedenceAmended ==
    GraphBuilt =>
        \A p \in SeqProcs :
            HasOutputsAndNext(p) =>
                /\ EdgesToOutputs(p)
                /\ <<p, heap0[p].next_process>> \in G
                      <=> LinkedBackTo(heap0[p].next_process, p)

C13_Witness ==
    /\ GraphBuilt
    /\ \E p \in SeqProcs :
          /\ HasOutputsAndNext(p)
          /\ \E k \in DOMAIN OutputsOf(p) : <<p, OutputsOf(p)[k]>> \in G
          /\ heap0[p].next_process \in SeqProcs
          /\ InputsOf(heap0[p].next_process) # <<>>
          /\ heap0[heap0[p].next_process].prev_process = p
          /\ <<p, heap0[p].next_process>> \notin G

\* C14 as stated: a process with inputs and a prev_process has an edge from
\* each input and no edge from its prev_process.
C14_InputsPrecedence ==
    GraphBuilt =>
        \A p \in SeqProcs :
            HasInputsAndPrev(p) =>
                /\ EdgesFromInputs(p)
                /\ <<heap0[p].prev_process, p>> \notin G

\* q is in the sequence, has no outputs and names p as its next_process
LinkedForwardTo(q, p) ==
    /\ q \in SeqProcs
    /\ OutputsOf(q) = <<>>
    /\ heap0[q].next_process = p

\* C14 amended: a process with inputs and a prev_process has an edge from each
\* input, and an edge from its prev_process only when that process is in the
\* sequence with empty outputs and this process as its next_process.
C14_InputsPrecedenceAmended ==
    GraphBuilt =>
        \A p \in SeqProcs :
            HasInputsAndPrev(p) =>
                /\ EdgesFromInputs(p)
                /\ <<heap0[p].prev_process, p>> \in G
                      <=> LinkedForwardTo(heap0[p].prev_process, p)

C14_Witness ==
    /\ GraphBuilt
    /\ \E p \in SeqProcs :
          /\ HasInputsAndPrev(p)
          /\ \E k \in DOMAIN InputsOf(p) : <<InputsOf(p)[k], p>> \in G
          /\ heap0[p].prev_process \in SeqProcs
          /\ OutputsOf(heap0[p].prev_process) # <<>>
          /\ heap0[heap0[p].prev_process].next_process = p
          /\ <<heap0[p].prev_process, p>> \notin G

\* C15: no process has an edge to a DataFile among its outputs, each of its
\* other outputs has an edge from it, and every input, DataFile or not, has
\* an edge into it.
C15_DataFileExclusion ==
    GraphBuilt =>
        \A p \in SeqProcs :
            /\ \A k \in DOMAIN OutputsOf(p) :
                  <<p, OutputsOf(p)[k]>> \in G <=> ~IsDataFile(OutputsOf(p)[k])
            /\ EdgesFromInputs(p)

C15_Witness ==
    /\ GraphBuilt
    /\ \E p \in SeqProcs :
          /\ \E k \in DOMAIN OutputsOf(p) :
                IsDataFile(OutputsOf(p)[k]) /\ <<p, OutputsOf(p)[k]>> \notin G
          /\ \E k \in DOMAIN OutputsOf(p) :
                ~IsDataFile(OutputsOf(p)[k]) /\ <<p, OutputsOf(p)[k]>> \in G
          /\ \E k \in DOMAIN InputsOf(p) :
                IsDataFile(InputsOf(p)[k]) /\ <<InputsOf(p)[k], p>> \in G

\* ---------------------------------------------------------- batch_set_attr
\* batch_set_attr was left by an exception
SetAttrRaised == op = "set_attr" /\ pc = "raised"

\* batch_set_attr returned normally
SetAttrReturned == op = "set_attr" /\ pc = "done"

\* the attributes an item can be read for
AttrNames == {"name", "value", "term", "term_accession", "category", "unit"}

\* item r reads the same for attribute a as before the call
ReadsAsBefore(r, a) == GetAttr(heap, r, a) = GetAttr(heap0, r, a)

\* C16: when a setter raises during batch_set_attr(items, attr, val), every
\* item of items still has the value of attr it had before the call.
C16_NoPartialApplication ==
    SetAttrRaised =>
        \A k \in 1..Len(Items) : ReadsAsBefore(Items[k], attr)

NormalisesFalsy(r, a) ==
    \/ heap[r].kind = "Comment" /\ a = "value"
    \/ heap[r].kind = "OntologyAnnotation" /\ a = "term"

\* term_accession of an OntologyAnnotation reads None while its term is falsy
HiddenAccession(r, a) ==
    /\ heap[r].kind = "OntologyAnnotation"
    /\ a = "term_accession"
    /\ GetAttr(heap, r, "term") = PyNone

====
